---- MODULE Spec2Model ----
(***************************************************************************)
(* Notion <-> Google Tasks synchronisation: the hybrid pass of             *)
(* SyncService.performFullSync (src/src/services/syncService.js:503-710),  *)
(* its helpers, the two store services it calls and the triggers that      *)
(* invoke it.                                                              *)
(*                                                                         *)
(* A title is a sequence of one-character strings.  A text (notes) is a    *)
(* sequence of lines joined by "\n"; a line is [c |-> class, n |-> length],*)
(* where class "ws" is a whitespace-only line (n may be 0) and every other *)
(* class names a body of characters that starts and ends with a            *)
(* non-whitespace character; a shorter line of the same class is a prefix  *)
(* of a longer one; k is the count a truncation suffix line prints (0 on   *)
(* every other line).  The empty string is the text with no line.          *)
(***************************************************************************)
EXTENDS Integers, Sequences, FiniteSets, TLC

(***************************************************************************)
(* Bounds of the model.                                                    *)
(***************************************************************************)
MaxPasses == 2
MaxRejected == 1
MaxExternal == 1

(***************************************************************************)
(* Program constants.                                                      *)
(***************************************************************************)
SYNC_BUFFER == 5000
MAX_CREATE_LENGTH == 8000
MAX_GOOGLE_NOTES_LENGTH == 8000
EMERGENCY_LENGTH == 4000
SUFFIX_ROOM == 100
RECENCY_SKEW_MS == 2000

(***************************************************************************)
(* Titles: title.trim().toLowerCase().replace(/\s+/g, ' ')                 *)
(***************************************************************************)
IsSpace(ch) == ch \in {" ", "\t"}

RECURSIVE TrimStart(_)
TrimStart(s) ==
  IF s = <<>> THEN <<>>
  ELSE IF IsSpace(Head(s)) THEN TrimStart(Tail(s)) ELSE s

RECURSIVE TrimEnd(_)
TrimEnd(s) ==
  IF s = <<>> THEN <<>>
  ELSE IF IsSpace(s[Len(s)]) THEN TrimEnd(SubSeq(s, 1, Len(s) - 1)) ELSE s

Trim(s) == TrimEnd(TrimStart(s))

LowerChar(ch) ==
  CASE ch = "A" -> "a"
    [] ch = "B" -> "b"
    [] OTHER -> ch

ToLowerCase(s) == [k \in 1..Len(s) |-> LowerChar(s[k])]

CollapseNothing(s) == s

\* replace(/\s+/g, ' '): every maximal run of whitespace becomes one space
RECURSIVE CollapseSpaces(_)
CollapseSpaces(s) ==
  IF s = <<>> THEN <<>>
  ELSE IF IsSpace(Head(s))
       THEN <<" ">> \o CollapseSpaces(TrimStart(s))
       ELSE <<Head(s)>> \o CollapseSpaces(Tail(s))

NormalizeTitle(t) == CollapseSpaces(ToLowerCase(Trim(t)))

EmptyTitleNoTrim(t) == t = <<>>

\* !task.title?.trim()
EmptyTitle(t) == Trim(t) = <<>>

(***************************************************************************)
(* Texts.                                                                  *)
(***************************************************************************)
EmptyText == <<>>
Line(c, n) == [c |-> c, n |-> n, k |-> 0]
WsLine(n) == Line("ws", n)
BlankLine == WsLine(0)

RECURSIVE SumLines(_)
SumLines(t) == IF t = <<>> THEN 0 ELSE Head(t).n + SumLines(Tail(t))

\* String.length of the joined text
TextLength(t) == IF t = <<>> THEN 0 ELSE SumLines(t) + (Len(t) - 1)

RECURSIVE DropLeadingWs(_)
DropLeadingWs(t) ==
  IF t = <<>> THEN <<>>
  ELSE IF Head(t).c = "ws" THEN DropLeadingWs(Tail(t)) ELSE t

RECURSIVE DropTrailingWs(_)
DropTrailingWs(t) ==
  IF t = <<>> THEN <<>>
  ELSE IF t[Len(t)].c = "ws" THEN DropTrailingWs(SubSeq(t, 1, Len(t) - 1)) ELSE t

\* String.trim() on a text
TrimText(t) == DropTrailingWs(DropLeadingWs(t))

\* content.substring(0, k).split('\n'): the lines of the first k characters
RECURSIVE PrefixLines(_, _)
PrefixLines(t, k) ==
  IF t = <<>> THEN <<>>
  ELSE IF Head(t).n >= k THEN << [Head(t) EXCEPT !.n = k] >>
  ELSE IF Tail(t) = <<>> THEN << Head(t) >>
  ELSE << Head(t) >> \o PrefixLines(Tail(t), k - Head(t).n - 1)

\* number of decimal digits of a count
Digits(n) ==
  IF n < 10 THEN 1 ELSE IF n < 100 THEN 2 ELSE IF n < 1000 THEN 3
  ELSE IF n < 10000 THEN 4 ELSE 5

\* `[... ${n} more characters in full Notion content ...]`
SuffixLine(n) == [c |-> "suffix", n |-> 5 + Digits(n) + 44, k |-> n]

\* lines.pop() when the cut left more than one line
DropPartialLine(lines) ==
  IF Len(lines) > 1 THEN SubSeq(lines, 1, Len(lines) - 1) ELSE lines

\* content.substring(0, truncateAt): a negative end counts as 0
CutAt(truncateAt) == IF truncateAt < 0 THEN 0 ELSE truncateAt

createSmartTruncationStrict(content, maxLength) ==
  IF TextLength(content) < maxLength THEN content
  ELSE LET kept == DropPartialLine(PrefixLines(content, CutAt(maxLength - SUFFIX_ROOM)))
       IN  kept \o << BlankLine, SuffixLine(TextLength(content) - TextLength(kept)) >>

createSmartTruncationNoRoom(content, maxLength) ==
  IF TextLength(content) <= maxLength THEN content
  ELSE LET kept == DropPartialLine(PrefixLines(content, CutAt(maxLength)))
       IN  kept \o << BlankLine, SuffixLine(TextLength(content) - TextLength(kept)) >>

createSmartTruncationCountsCut(content, maxLength) ==
  IF TextLength(content) <= maxLength THEN content
  ELSE LET kept == DropPartialLine(PrefixLines(content, CutAt(maxLength - SUFFIX_ROOM)))
       IN  kept \o << BlankLine, SuffixLine(TextLength(content) - CutAt(maxLength - SUFFIX_ROOM)) >>

createSmartTruncation(content, maxLength) ==
  IF TextLength(content) <= maxLength THEN content
  ELSE LET truncateAt == maxLength - SUFFIX_ROOM
           lines == PrefixLines(content, CutAt(truncateAt))
           kept == DropPartialLine(lines)
       IN  \* truncated + "\n\n" + suffix line
           kept \o << BlankLine, SuffixLine(TextLength(content) - TextLength(kept)) >>

(***************************************************************************)
(* The two stores.  A Google task is [id, title, status, notes, updated],  *)
(* a Notion page is [id, title, status, blocks, last_edited_time]; a       *)
(* page's blocks are a text, one line per block.  An id is the record's    *)
(* position in its store (nothing is ever deleted).                        *)
(***************************************************************************)
GTask(id, title, done, notes, t) ==
  [id |-> id, title |-> title, status |-> IF done THEN "completed" ELSE "needsAction",
   notes |-> notes, updated |-> t]

NPage(id, title, done, blocks, t) ==
  [id |-> id, title |-> title, status |-> IF done THEN "Done" ELSE "To Do",
   blocks |-> blocks, last_edited_time |-> t]

\* GoogleTasksService.formatGoogleTask
formatGoogleTask(task) ==
  [id |-> task.id, title |-> task.title, completed |-> (task.status = "completed"),
   notes |-> TrimText(task.notes), lastModified |-> task.updated]

\* NotionService.getPageComments: the text of the blocks, whitespace-only
\* paragraphs left out, joined by "\n"
getPageComments(page) == SelectSeq(page.blocks, LAMBDA ln : ln.c # "ws")

\* NotionService.formatNotionTask, with notes filled in by getTasks
formatNotionTask(page) ==
  [id |-> page.id, title |-> page.title, completed |-> (page.status = "Done"),
   notes |-> getPageComments(page), lastModified |-> page.last_edited_time]

\* tasks.list({ ..., maxResults: 100 }) and the data source query with
\* page_size: 100 answer with one page: the first records of the store, and
\* a token for the rest, which neither getTasks reads
maxResults == 100
page_size == 100

FirstPage(store, size) ==
  SubSeq(store, 1, IF Len(store) < size THEN Len(store) ELSE size)

\* GoogleTasksService.getTasks: response.data.items.map(formatGoogleTask)
GoogleGetTasks(store) ==
  LET items == FirstPage(store, maxResults)
  IN  [k \in 1..Len(items) |-> formatGoogleTask(items[k])]

\* NotionService.getTasks: response.results, each formatted with its comments
NotionGetTasks(store) ==
  LET results == FirstPage(store, page_size)
  IN  [k \in 1..Len(results) |-> formatNotionTask(results[k])]

\* NotionService.updatePageComments: the non-blank lines become the blocks
BlocksOf(text) == SelectSeq(text, LAMBDA ln : ln.c # "ws")

(***************************************************************************)
(* Matching (performFullSync, hybrid).                                     *)
(***************************************************************************)
SameTitle(t1, t2) == NormalizeTitle(t1) = NormalizeTitle(t2)

Matches(nt, googleTask) ==
  /\ ~EmptyTitle(nt.title)
  /\ SameTitle(nt.title, googleTask.title)

\* notionTasks.find(...): index of the first match, 0 when there is none
FindMatch(notionTasks, googleTask) ==
  LET hits == {k \in 1..Len(notionTasks) : Matches(notionTasks[k], googleTask)}
  IN  IF hits = {} THEN 0 ELSE CHOOSE k \in hits : \A h \in hits : k <= h

HasGoogleMatch(nt, googleTasks) ==
  \E k \in 1..Len(googleTasks) :
     /\ ~EmptyTitle(googleTasks[k].title)
     /\ SameTitle(nt.title, googleTasks[k].title)

NotionOnlyTasksOpenOnly(notionTasks, googleTasks) ==
  SelectSeq(notionTasks,
            LAMBDA nt : /\ ~EmptyTitle(nt.title) /\ ~nt.completed
                        /\ ~HasGoogleMatch(nt, googleTasks))

\* notionTasks.filter(...): the Notion-only tasks, in snapshot order
NotionOnlyTasks(notionTasks, googleTasks) ==
  SelectSeq(notionTasks,
            LAMBDA nt : ~EmptyTitle(nt.title) /\ ~HasGoogleMatch(nt, googleTasks))

GoogleNewerNoBuffer(timeDifferenceMs) == timeDifferenceMs > 0

\* if (timeDifferenceMs > SYNC_BUFFER)
GoogleNewer(timeDifferenceMs) == timeDifferenceMs > SYNC_BUFFER

NotionNewerWrongSign(timeDifferenceMs) == timeDifferenceMs > -SYNC_BUFFER

\* else if (timeDifferenceMs < -SYNC_BUFFER)
NotionNewer(timeDifferenceMs) == timeDifferenceMs < -SYNC_BUFFER

(***************************************************************************)
(* State.                                                                  *)
(***************************************************************************)
VARIABLES
  isRunning,   \* SyncService.isRunning
  stats,       \* SyncService.stats
  notion,      \* the Notion database: a sequence of pages
  google,      \* the Google task list: a sequence of tasks
  now,         \* the stores' clock, in ms
  pc,          \* where each trigger's invocation of performFullSync stands
  loc,         \* the local variables of each invocation
  response,    \* the last report of a trigger's handler to its caller
  calls,       \* the create/update calls of the pass that started last
  hist,        \* one summary per pass that has ended
  passes,      \* the number of passes started
  rejected,    \* the number of invocations the flag rejected during this pass
  externals,   \* the number of out-of-band edits
  trunc,       \* a call of createSmartTruncation: its arguments and its result
  commentFetch \* a call of NotionService.getTasks seen request by request

vars == <<isRunning, stats, notion, google, now, pc, loc, response, calls, hist,
          passes, rejected, externals, trunc, commentFetch>>

\* the timer, the startup timeout and POST /sync
Procs == {"scheduled", "startup", "manual"}

NoTime == -1

InitStats ==
  [totalSyncs |-> 0, lastSyncTime |-> NoTime, errors |-> 0,
   tasksCreated |-> 0, tasksUpdated |-> 0, tasksDeleted |-> 0]

NoUpdate == [field |-> "none", completed |-> FALSE, notes |-> <<>>, attempt |-> 0]
NoTask == GTask(0, <<>>, FALSE, <<>>, 0)

\* result: what the handler reported; ran: whether the invocation it
\* reports on got past the isRunning guard
NoResponse == [result |-> "none", ran |-> FALSE]

\* getPageCommentsWithRetry(pageId, maxRetries = 3)
maxRetries == 3

\* no getTasks call is followed request by request.  pcf: where the call
\* stands; failing[k]: how many of the first block-list requests for page k
\* are rejected; results: the pages the query returned; i: the page being
\* read; attempt: the loop variable of getPageCommentsWithRetry;
\* requests[k]: the block-list requests sent for page k; lastFailed[k]:
\* whether the last of them was rejected; tasks: tasksWithContent
NoCommentFetch ==
  [pcf |-> "off", failing |-> <<>>, results |-> <<>>, i |-> 0, attempt |-> 0,
   requests |-> <<>>, lastFailed |-> <<>>, tasks |-> <<>>, queryFailed |-> FALSE]

\* no call of createSmartTruncation under way outside a pass
NoTruncation == [content |-> <<>>, maxLength |-> 0, out |-> <<>>, returned |-> FALSE]

InitLoc ==
  [haveN |-> FALSE, haveG |-> FALSE, notionTasks |-> <<>>, googleTasks |-> <<>>,
   i |-> 1, j |-> 1, created |-> 0, updated |-> 0, needsUpdate |-> FALSE,
   m |-> 0, notionOnly |-> <<>>, upd |-> NoUpdate, current |-> NoTask,
   syncStartTime |-> NoTime, thrown |-> 0]

(***************************************************************************)
(* Initial store contents.                                                 *)
(***************************************************************************)
Short == << Line("p", 5) >>
Other == << Line("q", 7) >>
Spaced == << Line("p", 5), BlankLine, Line("q", 7) >>
Long == << Line("r", 7950), Line("s", 600) >>

BaseTime == 10000
StartTime == 20000
Deltas == {-6000, -5000, -2000, 0, 2000, 5000, 6000}
PassGaps == {1000, 120000}

TitleA == << "a" >>
TitleA2 == << " ", "A" >>
TitleB == << "b" >>
TitleBlank == << " " >>
TitleAB == << "a", " ", " ", "b" >>
TitleAB2 == << "A", "\t", "B", " " >>
TitleNoSpace == << "a", "b" >>

\* <<Google notes, Notion blocks>> of a matched pair whose notes differ
NotePairs ==
  { <<Short, Other>>, <<Short, EmptyText>>, <<EmptyText, Short>>, <<Short, Long>> }

Pair(gd, gn, gt, nd, nn, nt) ==
  [g |-> << GTask(1, TitleA, gd, gn, gt) >>, n |-> << NPage(1, TitleA2, nd, nn, nt) >>]

\* one task on each side, with the same normalized title: every combination
\* of the completed values and the time difference with equal notes, every
\* pair of differing notes with equal completed values, and both differing
MatchedPairs ==
  { Pair(gd, Short, BaseTime + d, nd, Short, BaseTime) :
       gd \in BOOLEAN, nd \in BOOLEAN, d \in Deltas }
  \cup
  { Pair(FALSE, np[1], BaseTime + d, FALSE, np[2], BaseTime) :
       np \in NotePairs, d \in {-6000, 0, 6000} }
  \cup
  { Pair(gd, Short, BaseTime + d, ~gd, Other, BaseTime) :
       gd \in BOOLEAN, d \in {-6000, 6000} }

\* one task on each side, with different titles (or no usable title)
Unmatched ==
  { [g |-> << GTask(1, TitleB, gd, nn[1], BaseTime) >>,
     n |-> << NPage(1, TitleA, nd, nn[2], BaseTime) >>] :
       gd \in BOOLEAN, nd \in BOOLEAN,
       nn \in {<<EmptyText, Short>>, <<Spaced, Long>>} }
  \cup
  { [g |-> << GTask(1, TitleBlank, FALSE, Short, BaseTime) >>,
     n |-> << NPage(1, <<>>, FALSE, Short, BaseTime) >>] }
  \cup
  { [g |-> << GTask(1, TitleAB, FALSE, Short, BaseTime) >>,
     n |-> << NPage(1, TitleNoSpace, FALSE, Short, BaseTime) >>] }

\* two records with one normalized title on one side
Duplicates ==
  { [g |-> << GTask(1, TitleA, gd, Short, BaseTime + d) >>,
     n |-> << NPage(1, TitleA, nd, Short, BaseTime),
              NPage(2, TitleA2, ~nd, Short, BaseTime) >>] :
       gd \in BOOLEAN, nd \in BOOLEAN, d \in {-6000, 6000} }
  \cup
  { [g |-> << GTask(1, TitleA, gd, Short, BaseTime + d),
              GTask(2, TitleA2, ~gd, Short, BaseTime + d) >>,
     n |-> << NPage(1, TitleA, nd, Short, BaseTime) >>] :
       gd \in BOOLEAN, nd \in BOOLEAN, d \in {-6000, 6000} }
  \cup
  { [g |-> << GTask(1, TitleA, gd, Short, BaseTime),
              GTask(2, TitleA2, ~gd, Short, BaseTime) >>,
     n |-> <<>>] : gd \in BOOLEAN }
  \cup
  { [g |-> <<>>,
     n |-> << NPage(1, TitleA, nd, Short, BaseTime),
              NPage(2, TitleA2, ~nd, Short, BaseTime) >>] : nd \in BOOLEAN }

\* titles that differ in case and in their whitespace only
Respaced ==
  { [g |-> << GTask(1, TitleAB, FALSE, Short, BaseTime) >>,
     n |-> << NPage(1, TitleAB2, FALSE, Short, BaseTime) >>] }

\* a matched pair one record of which has no lastModified
Undated ==
  { Pair(FALSE, Short, NoTime, TRUE, Short, BaseTime),
    Pair(TRUE, Short, BaseTime, FALSE, Short, NoTime) }

\* a matched pair that differs in completion and in notes, next to a Notion
\* record no Google task matches
Mixed ==
  { [g |-> << GTask(1, TitleA, TRUE, Short, BaseTime + d) >>,
     n |-> << NPage(1, TitleA2, FALSE, Other, BaseTime),
              NPage(2, TitleB, FALSE, Short, BaseTime) >>] : d \in {-6000, 6000} }

\* two completed Google tasks of one normalized title, newer than the open
\* Notion record they both match
Twins ==
  { [g |-> << GTask(1, TitleA, TRUE, Short, BaseTime + 6000),
              GTask(2, TitleA2, TRUE, Short, BaseTime + 6000) >>,
     n |-> << NPage(1, TitleA, FALSE, Short, BaseTime) >>] }

Scenarios ==
  MatchedPairs \cup Unmatched \cup Duplicates \cup Respaced \cup Undated \cup Mixed
    \cup Twins

Init ==
  /\ isRunning = FALSE
  /\ stats = InitStats
  /\ \E sc \in Scenarios : google = sc.g /\ notion = sc.n
  /\ now = StartTime
  /\ pc = [p \in Procs |-> "idle"]
  /\ loc = [p \in Procs |-> InitLoc]
  /\ response = NoResponse
  /\ calls = <<>>
  /\ hist = <<>>
  /\ passes = 0
  /\ rejected = 0
  /\ externals = 0
  /\ trunc = NoTruncation
  /\ commentFetch = NoCommentFetch

(***************************************************************************)
(* Call log.                                                               *)
(***************************************************************************)
\* op: "create" | "update"; side: "notion" | "google"; field: "task" |
\* "completed" | "notes"; id: the record written (0 when a create left
\* none); g, n: the ids of the pair being processed, or of the source record
\* of a create (0 when there is none); done: the completed value sent
Call(op, side, field, id, g, n, done, ok) ==
  [op |-> op, side |-> side, field |-> field, id |-> id, g |-> g, n |-> n,
   done |-> done, ok |-> ok]

Count(log, op, okOnly) ==
  Cardinality({k \in 1..Len(log) : log[k].op = op /\ (okOnly => log[k].ok)})

\* what a pass that has ended did: whether both snapshots arrived, the
\* calls it issued, those that
\* succeeded, what it added to the counters, and whether an out-of-band edit
\* had happened by its end
Summary(p, outcome, before, after) ==
  [outcome |-> outcome,
   fetched |-> loc[p].haveN /\ loc[p].haveG,
   creates |-> Count(calls, "create", FALSE), updates |-> Count(calls, "update", FALSE),
   okCreates |-> Count(calls, "create", TRUE), okUpdates |-> Count(calls, "update", TRUE),
   dCreated |-> after.tasksCreated - before.tasksCreated,
   dUpdated |-> after.tasksUpdated - before.tasksUpdated,
   dSyncs |-> after.totalSyncs - before.totalSyncs,
   dErrors |-> after.errors - before.errors,
   ext |-> externals]

(***************************************************************************)
(* performFullSync (hybrid), one action per step between two awaits.       *)
(***************************************************************************)
Local(p, f, v) == [loc EXCEPT ![p][f] = v]

NeverRunning == FALSE

\* if (this.isRunning) { ... return; }
AlreadyRunning == isRunning

\* the guard passed: this.isRunning = true; syncStartTime = new Date();
\* the two getTasks calls are issued
StartPass(p) ==
  /\ pc[p] = "idle"
  /\ ~AlreadyRunning
  /\ passes < MaxPasses
  /\ \E gap \in (IF passes = 0 THEN {0} ELSE PassGaps) :
       /\ now' = now + gap
       /\ loc' = [loc EXCEPT ![p] = [InitLoc EXCEPT !.syncStartTime = now + gap]]
  /\ isRunning' = TRUE
  /\ pc' = [pc EXCEPT ![p] = "fetch"]
  /\ calls' = <<>>
  /\ passes' = passes + 1
  /\ UNCHANGED <<trunc, commentFetch, stats, notion, google, response, hist, rejected, externals>>

\* the guard fails: log and return; the trigger's handler then reports
\* that the sync completed (part_005:33-37, 60; syncNotionTasks.js:15)
SkipPass(p) ==
  /\ pc[p] = "idle"
  /\ AlreadyRunning
  /\ rejected < MaxRejected
  /\ rejected' = rejected + 1
  /\ response' = [result |-> "success", ran |-> FALSE]
  /\ UNCHANGED <<trunc, commentFetch, isRunning, stats, notion, google, now, pc, loc, calls, hist,
                 passes, externals>>

FetchedEither(p, l) ==
  IF l.haveN \/ l.haveG
  THEN pc' = [pc EXCEPT ![p] = "loop"]
  ELSE UNCHANGED pc

Fetched(p, l) ==
  IF l.haveN /\ l.haveG
  THEN pc' = [pc EXCEPT ![p] = "loop"]
  ELSE UNCHANGED pc

\* notionService.getTasks() resolves
FetchNotion(p) ==
  /\ pc[p] = "fetch"
  /\ ~loc[p].haveN
  /\ LET l == [loc[p] EXCEPT !.haveN = TRUE, !.notionTasks = NotionGetTasks(notion)]
     IN  loc' = [loc EXCEPT ![p] = l] /\ Fetched(p, l)
  /\ UNCHANGED <<trunc, commentFetch, isRunning, stats, notion, google, now, response, calls, hist,
                 passes, rejected, externals>>

\* googleTasksService.getTasks() resolves
FetchGoogle(p) ==
  /\ pc[p] = "fetch"
  /\ ~loc[p].haveG
  /\ LET l == [loc[p] EXCEPT !.haveG = TRUE, !.googleTasks = GoogleGetTasks(google)]
     IN  loc' = [loc EXCEPT ![p] = l] /\ Fetched(p, l)
  /\ UNCHANGED <<trunc, commentFetch, isRunning, stats, notion, google, now, response, calls, hist,
                 passes, rejected, externals>>

FetchFailureIgnored(p) ==
  /\ pc[p] = "fetch"
  /\ pc' = [pc EXCEPT ![p] = "loop"]
  /\ UNCHANGED <<trunc, commentFetch, isRunning, stats, notion, google, now, loc, response, calls,
                 hist, passes, rejected, externals>>

\* one of the two getTasks calls rejects: Promise.all rejects
FetchFails(p) ==
  /\ pc[p] = "fetch"
  /\ pc' = [pc EXCEPT ![p] = "catch"]
  /\ UNCHANGED <<trunc, commentFetch, isRunning, stats, notion, google, now, loc, response, calls,
                 hist, passes, rejected, externals>>

\* new Date(lastModified) of a missing or unparseable value is an Invalid
\* Date: getTime() is NaN and toISOString() throws a RangeError
InvalidDate(lastModified) == lastModified = NoTime

\* for (const googleTask of googleTasks): skip, match and compare timestamps;
\* the log lines print both timestamps with toISOString() before comparing
ProcessGoogleTask(p) ==
  /\ pc[p] = "loop"
  /\ LET l == loc[p]
         googleTask == l.googleTasks[l.i]
         m == FindMatch(l.notionTasks, googleTask)
         timeDifferenceMs == googleTask.lastModified - l.notionTasks[m].lastModified
         differ == l.notionTasks[m].completed # googleTask.completed
     IN  IF l.i > Len(l.googleTasks)
         THEN pc' = [pc EXCEPT ![p] = "notionOnly"] /\ UNCHANGED loc
         ELSE IF EmptyTitle(googleTask.title)
         THEN loc' = Local(p, "i", l.i + 1) /\ UNCHANGED pc
         ELSE IF m = 0
         THEN pc' = [pc EXCEPT ![p] = "createNotion"] /\ UNCHANGED loc
         ELSE IF \/ InvalidDate(googleTask.lastModified)
                 \/ InvalidDate(l.notionTasks[m].lastModified)
         THEN pc' = [pc EXCEPT ![p] = "catch"] /\ UNCHANGED loc
         ELSE /\ loc' = [loc EXCEPT ![p].m = m, ![p].needsUpdate = FALSE]
              /\ pc' = [pc EXCEPT ![p] =
                   IF GoogleNewer(timeDifferenceMs) /\ differ THEN "updateNotion"
                   ELSE IF ~GoogleNewer(timeDifferenceMs)
                           /\ NotionNewer(timeDifferenceMs) /\ differ
                        THEN "updateGoogle"
                   ELSE "notes"]
  /\ UNCHANGED <<trunc, commentFetch, isRunning, stats, notion, google, now, response, calls, hist,
                 passes, rejected, externals>>

UpdateNotionCompletionWithNotes(p) ==
  /\ pc[p] = "updateNotion"
  /\ LET l == loc[p]
         g == l.googleTasks[l.i]
         n == l.notionTasks[l.m]
     IN \E outcome \in {"ok", "fail", "late"} :
         /\ notion' = IF outcome = "fail" THEN notion
                      ELSE [notion EXCEPT ![n.id].status =
                                            IF g.completed THEN "Done" ELSE "To Do",
                                          ![n.id].blocks = BlocksOf(g.notes),
                                          ![n.id].last_edited_time = now]
         /\ calls' = Append(calls, Call("update", "notion", "completed", n.id,
                                        g.id, n.id, g.completed, outcome = "ok"))
         /\ IF outcome = "ok"
            THEN /\ loc' = Local(p, "needsUpdate", TRUE)
                 /\ pc' = [pc EXCEPT ![p] = "notes"]
            ELSE /\ pc' = [pc EXCEPT ![p] = "catch"]
                 /\ UNCHANGED loc
  /\ UNCHANGED <<trunc, commentFetch, isRunning, stats, google, now, response, hist, passes, rejected,
                 externals>>

\* notionService.updateTask(id, {completed}): pages.update, then
\* pages.retrieve; "late" is a failure after the write went through
UpdateNotionCompletion(p) ==
  /\ pc[p] = "updateNotion"
  /\ LET l == loc[p]
         g == l.googleTasks[l.i]
         n == l.notionTasks[l.m]
     IN \E outcome \in {"ok", "fail", "late"} :
         /\ notion' = IF outcome = "fail" THEN notion
                      ELSE [notion EXCEPT ![n.id].status =
                                            IF g.completed THEN "Done" ELSE "To Do",
                                          ![n.id].last_edited_time = now]
         /\ calls' = Append(calls, Call("update", "notion", "completed", n.id,
                                        g.id, n.id, g.completed, outcome = "ok"))
         /\ IF outcome = "ok"
            THEN /\ loc' = Local(p, "needsUpdate", TRUE)
                 /\ pc' = [pc EXCEPT ![p] = "notes"]
            ELSE /\ pc' = [pc EXCEPT ![p] = "catch"]
                 /\ UNCHANGED loc
  /\ UNCHANGED <<trunc, commentFetch, isRunning, stats, google, now, response, hist, passes, rejected,
                 externals>>

UpdateGoogleCompletionOwnValue(p) ==
  /\ pc[p] = "updateGoogle"
  /\ loc' = Local(p, "upd", [NoUpdate EXCEPT !.field = "completed", !.attempt = 1,
                    !.completed = loc[p].googleTasks[loc[p].i].completed])
  /\ pc' = [pc EXCEPT ![p] = "googleGet"]
  /\ UNCHANGED <<trunc, commentFetch, isRunning, stats, notion, google, now, response, calls, hist,
                 passes, rejected, externals>>

\* updateGoogleCompletion: googleTasksService.updateTask(id, {completed}) issued
UpdateGoogleCompletion(p) ==
  /\ pc[p] = "updateGoogle"
  /\ loc' = Local(p, "upd", [NoUpdate EXCEPT !.field = "completed", !.attempt = 1,
                    !.completed = loc[p].notionTasks[loc[p].m].completed])
  /\ pc' = [pc EXCEPT ![p] = "googleGet"]
  /\ UNCHANGED <<trunc, commentFetch, isRunning, stats, notion, google, now, response, calls, hist,
                 passes, rejected, externals>>

ThrownErrorLast(upd) == upd.attempt

\* the attempt whose error a failed Google update lets out: updateGoogleNotes
\* throws the error of its first attempt when the second fails too
ThrownError(upd) == IF upd.field = "notes" THEN 1 ELSE upd.attempt

\* googleTasksService.updateTask: tasks.get resolves (or rejects)
GoogleGet(p) ==
  /\ pc[p] = "googleGet"
  /\ LET l == loc[p]
         g == l.googleTasks[l.i]
     IN \E ok \in BOOLEAN :
         IF ok
         THEN /\ loc' = Local(p, "current", google[g.id])
              /\ pc' = [pc EXCEPT ![p] = "googlePut"]
              /\ UNCHANGED calls
         ELSE /\ calls' = Append(calls, Call("update", "google", l.upd.field, g.id,
                                             g.id, l.m, l.upd.completed, FALSE))
              /\ IF l.upd.field = "notes" /\ l.upd.attempt = 1
                 THEN /\ loc' = Local(p, "upd",
                           [l.upd EXCEPT !.attempt = 2,
                              !.notes = createSmartTruncation(
                                          TrimText(l.notionTasks[l.m].notes),
                                          EMERGENCY_LENGTH)])
                      /\ UNCHANGED pc
                 ELSE /\ pc' = [pc EXCEPT ![p] = "catch"]
                      /\ loc' = Local(p, "thrown", ThrownError(l.upd))
  /\ UNCHANGED <<trunc, commentFetch, isRunning, stats, notion, google, now, response, hist, passes,
                 rejected, externals>>

\* this.tasks.tasks.delete({ task: taskId })
TasksDelete(store, id, resource) ==
  SubSeq(store, 1, id - 1) \o SubSeq(store, id + 1, Len(store))

\* this.tasks.tasks.update({ task: taskId, resource })
TasksUpdate(store, id, resource) == [store EXCEPT ![id] = resource]

\* the resource updateTask sends: the provided fields, the rest from the read
Resource(current, upd) ==
  [id |-> current.id,
   title |-> current.title,
   notes |-> IF upd.field = "notes" THEN upd.notes ELSE current.notes,
   status |-> IF upd.field = "completed"
              THEN (IF upd.completed THEN "completed" ELSE "needsAction")
              ELSE current.status,
   updated |-> now]

\* googleTasksService.updateTask: tasks.update resolves (or rejects)
GooglePut(p) ==
  /\ pc[p] = "googlePut"
  /\ LET l == loc[p]
         g == l.googleTasks[l.i]
     IN \E ok \in BOOLEAN :
         /\ calls' = Append(calls, Call("update", "google", l.upd.field, g.id,
                                        g.id, l.m, l.upd.completed, ok))
         /\ google' = IF ok THEN TasksUpdate(google, g.id, Resource(l.current, l.upd))
                      ELSE google
         /\ IF ok
            THEN /\ loc' = Local(p, "needsUpdate", TRUE)
                 /\ pc' = [pc EXCEPT ![p] =
                             IF l.upd.field = "completed" THEN "notes" ELSE "count"]
            ELSE IF l.upd.field = "notes" /\ l.upd.attempt = 1
            THEN /\ loc' = Local(p, "upd",
                      [l.upd EXCEPT !.attempt = 2,
                         !.notes = createSmartTruncation(
                                     TrimText(l.notionTasks[l.m].notes),
                                     EMERGENCY_LENGTH)])
                 /\ pc' = [pc EXCEPT ![p] = "googleGet"]
            ELSE /\ pc' = [pc EXCEPT ![p] = "catch"]
                 /\ loc' = Local(p, "thrown", ThrownError(l.upd))
  /\ UNCHANGED <<trunc, commentFetch, isRunning, stats, notion, now, response, hist, passes, rejected,
                 externals>>

\* updateGoogleNotes, up to its write: the notes it would send
ProcessedNotes(notes) ==
  IF TextLength(notes) > MAX_GOOGLE_NOTES_LENGTH
  THEN createSmartTruncation(notes, MAX_GOOGLE_NOTES_LENGTH)
  ELSE notes

NeverSkipped(processedNotes) == FALSE

\* updateGoogleNotes: if (processedNotes.length === 0) { ... return; }
SkipEmptyNotes(processedNotes) == TextLength(processedNotes) = 0

\* notes sync Notion -> Google of a matched pair
SyncNotes(p) ==
  /\ pc[p] = "notes"
  /\ LET l == loc[p]
         notionNotes == TrimText(l.notionTasks[l.m].notes)
         googleNotes == TrimText(l.googleTasks[l.i].notes)
         processedNotes == ProcessedNotes(notionNotes)
     IN  IF notionNotes = googleNotes
         THEN pc' = [pc EXCEPT ![p] = "count"] /\ UNCHANGED loc
         ELSE IF SkipEmptyNotes(processedNotes)
         THEN /\ loc' = Local(p, "needsUpdate", TRUE)
              /\ pc' = [pc EXCEPT ![p] = "count"]
         ELSE /\ loc' = Local(p, "upd", [NoUpdate EXCEPT !.field = "notes",
                                   !.attempt = 1, !.notes = processedNotes])
              /\ pc' = [pc EXCEPT ![p] = "googleGet"]
  /\ UNCHANGED <<trunc, commentFetch, isRunning, stats, notion, google, now, response, calls, hist,
                 passes, rejected, externals>>

CountUpdateRecheck(p) ==
  /\ pc[p] = "count"
  /\ loc' = [loc EXCEPT ![p].updated = IF loc[p].needsUpdate THEN @ + 1 ELSE @,
                        ![p].i = IF loc[p].needsUpdate THEN @ ELSE @ + 1]
  /\ pc' = [pc EXCEPT ![p] = "loop"]
  /\ UNCHANGED <<trunc, commentFetch, isRunning, stats, notion, google, now, response, calls, hist,
                 passes, rejected, externals>>

\* if (needsUpdate) updated++; then the next Google task
CountUpdate(p) ==
  /\ pc[p] = "count"
  /\ loc' = [loc EXCEPT ![p].updated = IF loc[p].needsUpdate THEN @ + 1 ELSE @,
                        ![p].i = @ + 1]
  /\ pc' = [pc EXCEPT ![p] = "loop"]
  /\ UNCHANGED <<trunc, commentFetch, isRunning, stats, notion, google, now, response, calls, hist,
                 passes, rejected, externals>>

\* notionService.createTask: pages.create, then updatePageComments when
\* there are notes; "late" is a failure after the page was created
CreateNotionTask(p) ==
  /\ pc[p] = "createNotion"
  /\ LET l == loc[p]
         g == l.googleTasks[l.i]
         outcomes == IF TextLength(g.notes) > 0 THEN {"ok", "fail", "late"}
                     ELSE {"ok", "fail"}
     IN \E outcome \in outcomes :
         /\ notion' = IF outcome = "fail" THEN notion
                      ELSE Append(notion,
                             NPage(Len(notion) + 1, g.title, g.completed,
                                   IF outcome = "ok" THEN BlocksOf(g.notes) ELSE <<>>,
                                   now))
         /\ calls' = Append(calls, Call("create", "notion", "task",
                                        IF outcome = "fail" THEN 0 ELSE Len(notion) + 1,
                                        g.id, 0, g.completed, outcome = "ok"))
         /\ IF outcome = "ok"
            THEN /\ loc' = [loc EXCEPT ![p].created = @ + 1, ![p].i = @ + 1]
                 /\ pc' = [pc EXCEPT ![p] = "loop"]
            ELSE /\ pc' = [pc EXCEPT ![p] = "catch"]
                 /\ UNCHANGED loc
  /\ UNCHANGED <<trunc, commentFetch, isRunning, stats, google, now, response, hist, passes, rejected,
                 externals>>

\* const notionOnlyTasks = notionTasks.filter(...)
FilterNotionOnly(p) ==
  /\ pc[p] = "notionOnly"
  /\ loc' = [loc EXCEPT ![p].notionOnly =
                           NotionOnlyTasks(loc[p].notionTasks, loc[p].googleTasks),
                        ![p].j = 1]
  /\ pc' = [pc EXCEPT ![p] = "createGoogle"]
  /\ UNCHANGED <<trunc, commentFetch, isRunning, stats, notion, google, now, response, calls, hist,
                 passes, rejected, externals>>

\* for (const notionTask of notionOnlyTasks): googleTasksService.createTask
CreateGoogleTask(p) ==
  /\ pc[p] = "createGoogle"
  /\ LET l == loc[p]
         nt == l.notionOnly[l.j]
         notesToSync == IF TextLength(nt.notes) > MAX_CREATE_LENGTH
                        THEN createSmartTruncation(nt.notes, MAX_CREATE_LENGTH)
                        ELSE nt.notes
     IN  IF l.j > Len(l.notionOnly)
         THEN /\ pc' = [pc EXCEPT ![p] = "stats"]
              /\ UNCHANGED <<loc, google, calls>>
         ELSE \E ok \in BOOLEAN :
                /\ calls' = Append(calls, Call("create", "google", "task",
                                               IF ok THEN Len(google) + 1 ELSE 0,
                                               0, nt.id, nt.completed, ok))
                /\ google' = IF ok
                             THEN Append(google, GTask(Len(google) + 1, nt.title,
                                                       nt.completed, notesToSync, now))
                             ELSE google
                /\ IF ok
                   THEN /\ loc' = [loc EXCEPT ![p].created = @ + 1, ![p].j = @ + 1]
                        /\ UNCHANGED pc
                   ELSE /\ pc' = [pc EXCEPT ![p] = "catch"]
                        /\ UNCHANGED loc
  /\ UNCHANGED <<trunc, commentFetch, isRunning, stats, notion, now, response, hist, passes, rejected,
                 externals>>

\* updateSyncStats, then finally { this.isRunning = false }; the trigger's
\* handler reports success
UpdateSyncStats(p) ==
  /\ pc[p] = "stats"
  /\ stats' = [stats EXCEPT !.totalSyncs = @ + 1,
                            !.lastSyncTime = loc[p].syncStartTime,
                            !.tasksCreated = @ + loc[p].created,
                            !.tasksUpdated = @ + loc[p].updated]
  /\ isRunning' = FALSE
  /\ pc' = [pc EXCEPT ![p] = "idle"]
  /\ response' = [result |-> "success", ran |-> TRUE]
  /\ hist' = Append(hist, Summary(p, "done", stats, stats'))
  /\ loc' = [loc EXCEPT ![p] = InitLoc]
  /\ rejected' = 0
  /\ UNCHANGED <<trunc, commentFetch, notion, google, now, calls, passes, externals>>

SyncFailedKeepsCounts(p) ==
  /\ pc[p] = "catch"
  /\ stats' = [stats EXCEPT !.errors = @ + 1,
                            !.tasksCreated = @ + loc[p].created,
                            !.tasksUpdated = @ + loc[p].updated]
  /\ isRunning' = FALSE
  /\ pc' = [pc EXCEPT ![p] = "idle"]
  /\ response' = [result |-> "failed", ran |-> TRUE]
  /\ hist' = Append(hist, Summary(p, "failed", stats, stats'))
  /\ loc' = [loc EXCEPT ![p] = InitLoc]
  /\ rejected' = 0
  /\ UNCHANGED <<trunc, commentFetch, notion, google, now, calls, passes, externals>>

SyncFailedKeepsFlag(p) ==
  /\ pc[p] = "catch"
  /\ stats' = [stats EXCEPT !.errors = @ + 1]
  /\ pc' = [pc EXCEPT ![p] = "idle"]
  /\ response' = [result |-> "failed", ran |-> TRUE]
  /\ hist' = Append(hist, Summary(p, "failed", stats, stats'))
  /\ loc' = [loc EXCEPT ![p] = InitLoc]
  /\ rejected' = 0
  /\ UNCHANGED <<trunc, commentFetch, isRunning, notion, google, now, calls, passes, externals>>

\* catch (error) { this.stats.errors++; throw error; } finally
\* { this.isRunning = false }; the trigger's handler reports the failure
SyncFailed(p) ==
  /\ pc[p] = "catch"
  /\ stats' = [stats EXCEPT !.errors = @ + 1]
  /\ isRunning' = FALSE
  /\ pc' = [pc EXCEPT ![p] = "idle"]
  /\ response' = [result |-> "failed", ran |-> TRUE]
  /\ hist' = Append(hist, Summary(p, "failed", stats, stats'))
  /\ loc' = [loc EXCEPT ![p] = InitLoc]
  /\ rejected' = 0
  /\ UNCHANGED <<trunc, commentFetch, notion, google, now, calls, passes, externals>>

\* an out-of-band actor adds an open task to the Google list while a pass
\* holds its Google snapshot (an addition at any other moment is one more
\* record in the snapshot the next fetch takes)
ExternalTitles == {TitleA2}

ExternalCreateGoogle ==
  /\ externals < MaxExternal
  /\ \E p \in Procs : loc[p].haveG
  /\ \E title \in ExternalTitles :
       google' = Append(google, GTask(Len(google) + 1, title, FALSE, <<>>, now))
  /\ externals' = externals + 1
  /\ UNCHANGED <<trunc, commentFetch, isRunning, stats, notion, now, pc, loc, response, calls, hist,
                 passes, rejected>>

\* an out-of-band actor edits a Google task between updateTask's tasks.get
\* and its tasks.update: a field the update in flight does not provide, the
\* notes under a completion update and the status under a notes update (an
\* edit at any earlier moment is part of what tasks.get reads)
Edited == << Line("e", 3) >>

ExternalEditGoogle ==
  /\ externals < MaxExternal
  /\ \E p \in Procs :
       /\ pc[p] = "googlePut"
       /\ LET id == loc[p].googleTasks[loc[p].i].id
          IN  google' =
                IF loc[p].upd.field = "completed"
                THEN [google EXCEPT ![id].notes = Edited, ![id].updated = now]
                ELSE [google EXCEPT ![id].updated = now,
                        ![id].status = IF @ = "completed" THEN "needsAction"
                                       ELSE "completed"]
  /\ externals' = externals + 1
  /\ UNCHANGED <<trunc, commentFetch, isRunning, stats, notion, now, pc, loc, response, calls, hist,
                 passes, rejected>>

Next ==
  \/ \E p \in Procs : StartPass(p)
  \/ \E p \in Procs : SkipPass(p)
  \/ \E p \in Procs : FetchNotion(p)
  \/ \E p \in Procs : FetchGoogle(p)
  \/ \E p \in Procs : FetchFails(p)
  \/ \E p \in Procs : ProcessGoogleTask(p)
  \/ \E p \in Procs : UpdateNotionCompletion(p)
  \/ \E p \in Procs : UpdateGoogleCompletion(p)
  \/ \E p \in Procs : GoogleGet(p)
  \/ \E p \in Procs : GooglePut(p)
  \/ \E p \in Procs : SyncNotes(p)
  \/ \E p \in Procs : CountUpdate(p)
  \/ \E p \in Procs : CreateNotionTask(p)
  \/ \E p \in Procs : FilterNotionOnly(p)
  \/ \E p \in Procs : CreateGoogleTask(p)
  \/ \E p \in Procs : UpdateSyncStats(p)
  \/ \E p \in Procs : SyncFailed(p)
  \/ ExternalCreateGoogle
  \/ ExternalEditGoogle

Spec == Init /\ [][Next]_vars

(***************************************************************************)
(* performFullSync, master/slave (src/src/services/syncService.js:18-220):  *)
(* the guard, the flag and the two fetches are the statements of the       *)
(* hybrid pass; the loops, the statistics and the catch follow.            *)
(***************************************************************************)
\* nt.title && nt.title.trim().toLowerCase() === googleTask.title.trim().toLowerCase()
MatchesMasterSlave(nt, googleTask) ==
  /\ nt.title # <<>>
  /\ ToLowerCase(Trim(nt.title)) = ToLowerCase(Trim(googleTask.title))

\* notionTasks.find(...): the index of the first match, 0 when there is none
FindMatchMasterSlave(notionTasks, googleTask) ==
  LET hits == {k \in 1..Len(notionTasks) : MatchesMasterSlave(notionTasks[k], googleTask)}
  IN  IF hits = {} THEN 0 ELSE CHOOSE k \in hits : \A h \in hits : k <= h

\* notionTasks.filter(...): titled records no Google task matches
NotionOnlyTasksMasterSlave(notionTasks, googleTasks) ==
  SelectSeq(notionTasks,
    LAMBDA nt : /\ ~EmptyTitle(nt.title)
                /\ \A k \in 1..Len(googleTasks) :
                     ~(googleTasks[k].title # <<>> /\ MatchesMasterSlave(nt, googleTasks[k])))

\* for (const googleTask of googleTasks): skip, match, compare completed
ProcessGoogleTaskMasterSlave(p) ==
  /\ pc[p] = "loop"
  /\ LET l == loc[p]
         googleTask == l.googleTasks[l.i]
         m == FindMatchMasterSlave(l.notionTasks, googleTask)
     IN  IF l.i > Len(l.googleTasks)
         THEN pc' = [pc EXCEPT ![p] = "notionOnly"] /\ UNCHANGED loc
         ELSE IF EmptyTitle(googleTask.title)
         THEN loc' = Local(p, "i", l.i + 1) /\ UNCHANGED pc
         ELSE IF m = 0
         THEN pc' = [pc EXCEPT ![p] = "createNotion"] /\ UNCHANGED loc
         ELSE IF l.notionTasks[m].completed # googleTask.completed
         THEN pc' = [pc EXCEPT ![p] = "updateNotion"] /\ loc' = Local(p, "m", m)
         ELSE loc' = Local(p, "i", l.i + 1) /\ UNCHANGED pc
  /\ UNCHANGED <<trunc, commentFetch, isRunning, stats, notion, google, now, response, calls, hist,
                 passes, rejected, externals>>

UpdateNotionMasterSlaveOwnValue(p) ==
  /\ pc[p] = "updateNotion"
  /\ LET l == loc[p]
         g == l.googleTasks[l.i]
         n == l.notionTasks[l.m]
     IN \E outcome \in {"ok", "fail", "late"} :
         /\ notion' = IF outcome = "fail" THEN notion
                      ELSE [notion EXCEPT ![n.id].last_edited_time = now]
         /\ calls' = Append(calls, Call("update", "notion", "completed", n.id,
                                        g.id, n.id, n.completed, outcome = "ok"))
         /\ loc' = [loc EXCEPT ![p].updated = IF outcome = "ok" THEN @ + 1 ELSE @,
                               ![p].i = @ + 1]
         /\ stats' = [stats EXCEPT !.errors = IF outcome = "ok" THEN @ ELSE @ + 1]
  /\ pc' = [pc EXCEPT ![p] = "loop"]
  /\ UNCHANGED <<trunc, commentFetch, isRunning, google, now, response, hist, passes, rejected,
                 externals>>

\* updates.completed = googleTask.completed; notionService.updateTask(id,
\* updates); updated++, or errors++ when the call throws ("late": after the
\* write went through)
UpdateNotionMasterSlave(p) ==
  /\ pc[p] = "updateNotion"
  /\ LET l == loc[p]
         g == l.googleTasks[l.i]
         n == l.notionTasks[l.m]
     IN \E outcome \in {"ok", "fail", "late"} :
         /\ notion' = IF outcome = "fail" THEN notion
                      ELSE [notion EXCEPT ![n.id].status =
                                            IF g.completed THEN "Done" ELSE "To Do",
                                          ![n.id].last_edited_time = now]
         /\ calls' = Append(calls, Call("update", "notion", "completed", n.id,
                                        g.id, n.id, g.completed, outcome = "ok"))
         /\ loc' = [loc EXCEPT ![p].updated = IF outcome = "ok" THEN @ + 1 ELSE @,
                               ![p].i = @ + 1]
         /\ stats' = [stats EXCEPT !.errors = IF outcome = "ok" THEN @ ELSE @ + 1]
  /\ pc' = [pc EXCEPT ![p] = "loop"]
  /\ UNCHANGED <<trunc, commentFetch, isRunning, google, now, response, hist, passes, rejected,
                 externals>>

\* notionService.createTask({title, completed, due, notes}); created++, or
\* errors++ when the call throws
CreateNotionTaskMasterSlave(p) ==
  /\ pc[p] = "createNotion"
  /\ LET l == loc[p]
         g == l.googleTasks[l.i]
         outcomes == IF TextLength(g.notes) > 0 THEN {"ok", "fail", "late"}
                     ELSE {"ok", "fail"}
     IN \E outcome \in outcomes :
         /\ notion' = IF outcome = "fail" THEN notion
                      ELSE Append(notion,
                             NPage(Len(notion) + 1, g.title, g.completed,
                                   IF outcome = "ok" THEN BlocksOf(g.notes) ELSE <<>>,
                                   now))
         /\ calls' = Append(calls, Call("create", "notion", "task",
                                        IF outcome = "fail" THEN 0 ELSE Len(notion) + 1,
                                        g.id, 0, g.completed, outcome = "ok"))
         /\ loc' = [loc EXCEPT ![p].created = IF outcome = "ok" THEN @ + 1 ELSE @,
                               ![p].i = @ + 1]
         /\ stats' = [stats EXCEPT !.errors = IF outcome = "ok" THEN @ ELSE @ + 1]
  /\ pc' = [pc EXCEPT ![p] = "loop"]
  /\ UNCHANGED <<trunc, commentFetch, isRunning, google, now, response, hist, passes, rejected,
                 externals>>

\* const notionOnlyTasks = notionTasks.filter(...)
FilterNotionOnlyMasterSlave(p) ==
  /\ pc[p] = "notionOnly"
  /\ loc' = [loc EXCEPT ![p].notionOnly =
                           NotionOnlyTasksMasterSlave(loc[p].notionTasks, loc[p].googleTasks),
                        ![p].j = 1]
  /\ pc' = [pc EXCEPT ![p] = "createGoogle"]
  /\ UNCHANGED <<trunc, commentFetch, isRunning, stats, notion, google, now, response, calls, hist,
                 passes, rejected, externals>>

\* for (const notionTask of notionOnlyTasks): googleTasksService.createTask
\* with the whole comments as notes; created++, or errors++
CreateGoogleTaskMasterSlave(p) ==
  /\ pc[p] = "createGoogle"
  /\ LET l == loc[p]
         nt == l.notionOnly[l.j]
     IN  IF l.j > Len(l.notionOnly)
         THEN /\ pc' = [pc EXCEPT ![p] = "stats"]
              /\ UNCHANGED <<loc, google, calls, stats>>
         ELSE \E ok \in BOOLEAN :
                /\ calls' = Append(calls, Call("create", "google", "task",
                                               IF ok THEN Len(google) + 1 ELSE 0,
                                               0, nt.id, nt.completed, ok))
                /\ google' = IF ok
                             THEN Append(google, GTask(Len(google) + 1, nt.title,
                                                       nt.completed, nt.notes, now))
                             ELSE google
                /\ loc' = [loc EXCEPT ![p].created = IF ok THEN @ + 1 ELSE @,
                                      ![p].j = @ + 1]
                /\ stats' = [stats EXCEPT !.errors = IF ok THEN @ ELSE @ + 1]
                /\ UNCHANGED pc
  /\ UNCHANGED <<trunc, commentFetch, isRunning, notion, now, response, hist, passes, rejected,
                 externals>>

\* the statistics, this.lastSync, then finally { this.isRunning = false }
UpdateStatsMasterSlave(p) ==
  /\ pc[p] = "stats"
  /\ stats' = [stats EXCEPT !.totalSyncs = @ + 1,
                            !.lastSyncTime = loc[p].syncStartTime,
                            !.tasksCreated = @ + loc[p].created,
                            !.tasksUpdated = @ + loc[p].updated]
  /\ isRunning' = FALSE
  /\ pc' = [pc EXCEPT ![p] = "idle"]
  /\ response' = [result |-> "success", ran |-> TRUE]
  /\ hist' = Append(hist, Summary(p, "done", stats, stats'))
  /\ loc' = [loc EXCEPT ![p] = InitLoc]
  /\ rejected' = 0
  /\ UNCHANGED <<trunc, commentFetch, notion, google, now, calls, passes, externals>>

\* catch (error) { this.stats.errors++; throw error; } finally
\* { this.isRunning = false }
SyncFailedMasterSlave(p) ==
  /\ pc[p] = "catch"
  /\ stats' = [stats EXCEPT !.errors = @ + 1]
  /\ isRunning' = FALSE
  /\ pc' = [pc EXCEPT ![p] = "idle"]
  /\ response' = [result |-> "failed", ran |-> TRUE]
  /\ hist' = Append(hist, Summary(p, "failed", stats, stats'))
  /\ loc' = [loc EXCEPT ![p] = InitLoc]
  /\ rejected' = 0
  /\ UNCHANGED <<trunc, commentFetch, notion, google, now, calls, passes, externals>>

NextMasterSlave ==
  \/ \E p \in Procs : StartPass(p)
  \/ \E p \in Procs : SkipPass(p)
  \/ \E p \in Procs : FetchNotion(p)
  \/ \E p \in Procs : FetchGoogle(p)
  \/ \E p \in Procs : FetchFails(p)
  \/ \E p \in Procs : ProcessGoogleTaskMasterSlave(p)
  \/ \E p \in Procs : UpdateNotionMasterSlave(p)
  \/ \E p \in Procs : CreateNotionTaskMasterSlave(p)
  \/ \E p \in Procs : FilterNotionOnlyMasterSlave(p)
  \/ \E p \in Procs : CreateGoogleTaskMasterSlave(p)
  \/ \E p \in Procs : UpdateStatsMasterSlave(p)
  \/ \E p \in Procs : SyncFailedMasterSlave(p)

SpecMasterSlave == Init /\ [][NextMasterSlave]_vars

(***************************************************************************)
(* The two fetches of a pass over stores of up to a little more than one   *)
(* API page.                                                               *)
(***************************************************************************)
StoreSizes == {0, 1, 99, 100, 101}

ManyTasks(size) == [k \in 1..size |-> GTask(k, TitleA, k % 2 = 0, Short, BaseTime)]
ManyPages(size) == [k \in 1..size |-> NPage(k, TitleB, k % 2 = 0, Other, BaseTime)]

InitFetch ==
  /\ isRunning = FALSE
  /\ stats = InitStats
  /\ \E size \in StoreSizes : google = ManyTasks(size)
  /\ \E size \in StoreSizes : notion = ManyPages(size)
  /\ now = StartTime
  /\ pc = [p \in Procs |-> "idle"]
  /\ loc = [p \in Procs |-> InitLoc]
  /\ response = NoResponse
  /\ calls = <<>>
  /\ hist = <<>>
  /\ passes = 0
  /\ rejected = 0
  /\ externals = 0
  /\ trunc = NoTruncation
  /\ commentFetch = NoCommentFetch

NextFetch ==
  \/ \E p \in Procs : StartPass(p)
  \/ \E p \in Procs : FetchNotion(p)
  \/ \E p \in Procs : FetchGoogle(p)
  \/ \E p \in Procs : FetchFails(p)

SpecFetch == InitFetch /\ [][NextFetch]_vars

(***************************************************************************)
(* createSmartTruncation on its own: one call, its arguments drawn from    *)
(* texts and limits around the cases of the function.                      *)
(***************************************************************************)
LineLengths == {1, 99, 100, 101, 102, 200, 4000, 7900, 8000, 8001, 8500}

TruncationTexts ==
  {EmptyText, Short, Spaced, Long}
    \cup {<< Line("r", n) >> : n \in LineLengths}
    \cup {<< BlankLine, Line("r", n) >> : n \in LineLengths}
    \cup {<< Line("r", a), Line("s", b) >> : a \in {1, 50, 7899, 7900}, b \in {60, 600}}
    \cup {<< Line("r", 7000), Line("s", 899), Line("t", 599) >>}

MaxLengths == {40, 100, 101, 102, 150, 200, 4000, 8000}

InitTruncation ==
  /\ isRunning = FALSE
  /\ stats = InitStats
  /\ google = <<>>
  /\ notion = <<>>
  /\ now = StartTime
  /\ pc = [p \in Procs |-> "idle"]
  /\ loc = [p \in Procs |-> InitLoc]
  /\ response = NoResponse
  /\ calls = <<>>
  /\ hist = <<>>
  /\ passes = 0
  /\ rejected = 0
  /\ externals = 0
  /\ \E content \in TruncationTexts, maxLength \in MaxLengths :
       trunc = [content |-> content, maxLength |-> maxLength, out |-> <<>>,
                returned |-> FALSE]
  /\ commentFetch = NoCommentFetch

\* the call returns
Truncate ==
  /\ ~trunc.returned
  /\ trunc' = [trunc EXCEPT !.out = createSmartTruncation(trunc.content, trunc.maxLength),
                            !.returned = TRUE]
  /\ UNCHANGED <<isRunning, stats, notion, google, now, pc, loc, response, calls,
                 hist, passes, rejected, externals, commentFetch>>

NextTruncation == Truncate

SpecTruncation == InitTruncation /\ [][NextTruncation]_vars

(***************************************************************************)
(* NotionService.getTasks request by request (notionService.js:28-155):    *)
(* the query, then for each page of the result getPageCommentsWithRetry.   *)
(* The pages of a batch are read concurrently and the batches in turn; a   *)
(* page's reading touches no other page's, so they are taken in order.     *)
(***************************************************************************)
TwoLines == << Line("p", 5), Line("q", 7) >>

CommentPages ==
  {<<>>}
    \cup {<< NPage(1, TitleA, FALSE, b, BaseTime) >> : b \in {EmptyText, Short, Spaced}}
    \cup {<< NPage(1, TitleA, FALSE, b1, BaseTime), NPage(2, TitleB, TRUE, b2, BaseTime) >> :
            b1 \in {Short, Spaced}, b2 \in {Short, TwoLines}}

InitComments ==
  /\ isRunning = FALSE
  /\ stats = InitStats
  /\ google = <<>>
  /\ notion \in CommentPages
  /\ now = StartTime
  /\ pc = [p \in Procs |-> "idle"]
  /\ loc = [p \in Procs |-> InitLoc]
  /\ response = NoResponse
  /\ calls = <<>>
  /\ hist = <<>>
  /\ passes = 0
  /\ rejected = 0
  /\ externals = 0
  /\ trunc = NoTruncation
  /\ \E failing \in [1..Len(notion) -> 0..maxRetries] :
       commentFetch = [NoCommentFetch EXCEPT
                         !.pcf = "query",
                         !.failing = failing,
                         !.requests = [k \in 1..Len(notion) |-> 0],
                         !.lastFailed = [k \in 1..Len(notion) |-> FALSE]]

\* the data source query resolves
QueryResolves ==
  /\ commentFetch.pcf = "query"
  /\ commentFetch' = [commentFetch EXCEPT !.pcf = "page", !.i = 1,
                                          !.results = FirstPage(notion, page_size)]
  /\ UNCHANGED <<isRunning, stats, notion, google, now, pc, loc, response, calls,
                 hist, passes, rejected, externals, trunc>>

\* the data source query rejects: getTasks logs and throws
QueryRejects ==
  /\ commentFetch.pcf = "query"
  /\ commentFetch' = [commentFetch EXCEPT !.pcf = "threw", !.queryFailed = TRUE]
  /\ UNCHANGED <<isRunning, stats, notion, google, now, pc, loc, response, calls,
                 hist, passes, rejected, externals, trunc>>

\* the next page of the result: getPageCommentsWithRetry(page.id) is called
\* and sends its first request; after the last page getTasks returns
NextPage ==
  /\ commentFetch.pcf = "page"
  /\ commentFetch' =
       IF commentFetch.i > Len(commentFetch.results)
       THEN [commentFetch EXCEPT !.pcf = "returned"]
       ELSE [commentFetch EXCEPT !.pcf = "list", !.attempt = 1]
  /\ UNCHANGED <<isRunning, stats, notion, google, now, pc, loc, response, calls,
                 hist, passes, rejected, externals, trunc>>

\* getPageComments: the text of the blocks when blocks.children.list
\* resolved; when it rejected, the catch returns ''
getPageCommentsResult(page, failed) ==
  [threw |-> FALSE, value |-> IF failed THEN EmptyText ELSE getPageComments(page)]

ListBlocksDropsFailed ==
  /\ commentFetch.pcf = "list"
  /\ LET c == commentFetch
         page == c.results[c.i]
         failed == c.requests[c.i] < c.failing[c.i]
         r == getPageCommentsResult(page, failed)
         sent == [c EXCEPT !.requests[c.i] = @ + 1, !.lastFailed[c.i] = failed]
     IN  commentFetch' =
           IF failed
           THEN [sent EXCEPT !.pcf = "page", !.i = @ + 1]
           ELSE [sent EXCEPT !.pcf = "page", !.i = @ + 1,
                   !.tasks = Append(@, [formatNotionTask(page) EXCEPT !.notes = r.value])]
  /\ UNCHANGED <<isRunning, stats, notion, google, now, pc, loc, response, calls,
                 hist, passes, rejected, externals, trunc>>

\* the block-list request of the current attempt resolves or rejects;
\* getPageCommentsWithRetry returns what getPageComments returned, or, when
\* getPageComments threw, waits and tries again, returning '' after the
\* attempt numbered maxRetries; getTasks puts the text in the task
ListBlocks ==
  /\ commentFetch.pcf = "list"
  /\ LET c == commentFetch
         page == c.results[c.i]
         failed == c.requests[c.i] < c.failing[c.i]
         r == getPageCommentsResult(page, failed)
         sent == [c EXCEPT !.requests[c.i] = @ + 1, !.lastFailed[c.i] = failed]
     IN  commentFetch' =
           IF r.threw /\ c.attempt < maxRetries
           THEN [sent EXCEPT !.attempt = @ + 1]
           ELSE [sent EXCEPT !.pcf = "page", !.i = @ + 1,
                   !.tasks = Append(@, [formatNotionTask(page) EXCEPT
                                          !.notes = IF r.threw THEN EmptyText
                                                    ELSE r.value])]
  /\ UNCHANGED <<isRunning, stats, notion, google, now, pc, loc, response, calls,
                 hist, passes, rejected, externals, trunc>>

NextComments ==
  \/ QueryResolves
  \/ QueryRejects
  \/ NextPage
  \/ ListBlocks

\* a request sent is answered and a timer set fires
SpecComments == InitComments /\ [][NextComments]_vars /\ WF_vars(NextComments)

(***************************************************************************)
(* Properties.                                                             *)
(***************************************************************************)
Running == {p \in Procs : pc[p] # "idle"}

Abs(x) == IF x < 0 THEN -x ELSE x

\* the completion updates the running pass has issued for one pair
CompletionCalls(gid, nid) ==
  SelectSeq(calls, LAMBDA c : c.field = "completed" /\ c.g = gid /\ c.n = nid)

TitleCount(store, title) ==
  Cardinality({k \in 1..Len(store) : SameTitle(store[k].title, title)})

FailedCalls(h) == (h.creates - h.okCreates) + (h.updates - h.okUpdates)

\* C1: at most one invocation of performFullSync is between its start and
\* its end, and an invocation that arrives while isRunning is true changes
\* neither the flag, the stats, a store, the call log nor any pass's progress.
C1_SingleFlight ==
  /\ [](Cardinality(Running) <= 1 /\ (isRunning <=> Running # {}))
  /\ [][(isRunning /\ \E p \in Procs : StartPass(p) \/ SkipPass(p))
          => UNCHANGED <<isRunning, stats, notion, google, calls, pc, loc>>]_vars

C1_Witness == rejected >= 1 /\ isRunning /\ calls # <<>>

\* C2: when a pass ran to its end without a failed call and no out-of-band
\* edit happened, the next pass that runs to its end issues no create and no
\* update and adds 0 to tasksCreated and tasksUpdated.
C2_Idempotent ==
  \A k \in 2..Len(hist) :
    (/\ hist[k - 1].outcome = "done" /\ FailedCalls(hist[k - 1]) = 0
     /\ hist[k].outcome = "done" /\ hist[k].ext = 0)
    => (/\ hist[k].creates = 0 /\ hist[k].updates = 0
        /\ hist[k].dCreated = 0 /\ hist[k].dUpdated = 0)

\* C3: a pass that reaches its end leaves Google with exactly one record of
\* the normalized title of an open Notion record that had no Google match in
\* the snapshot, when an out-of-band actor added a record of that title to
\* Google after the snapshot and before the pass's own create for it.
C3_GuardPreventsDuplicate ==
  \A p \in Procs : pc[p] = "stats" =>
    \A k \in 1..Len(loc[p].notionTasks) :
      LET nt == loc[p].notionTasks[k]
          snap == loc[p].googleTasks
          made == {calls[c].id : c \in {c \in 1..Len(calls) :
                      calls[c].op = "create" /\ calls[c].side = "google"}}
          mine == {calls[c].id : c \in {c \in 1..Len(calls) :
                      /\ calls[c].op = "create" /\ calls[c].side = "google"
                      /\ calls[c].n = nt.id}}
      IN  (/\ ~nt.completed /\ ~EmptyTitle(nt.title)
           /\ ~HasGoogleMatch(nt, snap)
           /\ TitleCount(loc[p].notionTasks, nt.title) = 1
           /\ \E e \in (Len(snap) + 1)..Len(google) :
                /\ e \notin made
                /\ SameTitle(google[e].title, nt.title)
                /\ \A c \in mine : e < c)
          => TitleCount(google, nt.title) = 1

\* C4: for a matched pair where the older side is open and the other side is
\* completed and exactly 5000 ms newer, a pass that reaches its end has issued
\* exactly one completion update for the pair: to the older side, with
\* completed = true.
C4_CompletionConvergence ==
  \A p \in Procs : pc[p] = "stats" =>
    \A i \in 1..Len(loc[p].googleTasks) :
      LET g == loc[p].googleTasks[i]
          m == FindMatch(loc[p].notionTasks, g)
          n == loc[p].notionTasks[m]
          done == CompletionCalls(g.id, n.id)
      IN  (~EmptyTitle(g.title) /\ m # 0) =>
            /\ (~g.completed /\ n.completed /\ n.lastModified = g.lastModified + 5000)
                 => (Len(done) = 1 /\ done[1].side = "google" /\ done[1].done)
            /\ (~n.completed /\ g.completed /\ g.lastModified = n.lastModified + 5000)
                 => (Len(done) = 1 /\ done[1].side = "notion" /\ done[1].done)

\* C5: a pass issues no completion update, to either side, for a matched pair
\* whose lastModified timestamps differ by at most the skew, be it the
\* documented RECENCY_SKEW_MS or the SYNC_BUFFER the pass compares with.
C5_NoFlappingWithinSkew ==
  \A p \in Procs : pc[p] # "idle" =>
    \A k \in 1..Len(calls) :
      calls[k].field = "completed" =>
        LET d == Abs(loc[p].googleTasks[calls[k].g].lastModified
                     - loc[p].notionTasks[calls[k].n].lastModified)
        IN  d > RECENCY_SKEW_MS /\ d > SYNC_BUFFER

C5_Witness ==
  \E p \in Procs :
    /\ pc[p] = "count"
    /\ LET g == loc[p].googleTasks[loc[p].i]
           n == loc[p].notionTasks[loc[p].m]
       IN  /\ g.completed # n.completed
           /\ Abs(g.lastModified - n.lastModified) <= RECENCY_SKEW_MS
           /\ CompletionCalls(g.id, n.id) = <<>>

\* C6: for every pair of records of the two snapshots at most one side is
\* judged newer, and a pass never issues completion updates to both sides of
\* one pair.
C6_RecencySymmetry ==
  \A p \in Procs : pc[p] \notin {"idle", "fetch"} =>
    /\ \A i \in 1..Len(loc[p].googleTasks) : \A k \in 1..Len(loc[p].notionTasks) :
         LET d == loc[p].googleTasks[i].lastModified
                  - loc[p].notionTasks[k].lastModified
         IN  ~(GoogleNewer(d) /\ NotionNewer(d))
    /\ \A a \in 1..Len(calls) : \A b \in 1..Len(calls) :
         (/\ calls[a].field = "completed" /\ calls[b].field = "completed"
          /\ calls[a].g = calls[b].g /\ calls[a].n = calls[b].n)
         => calls[a].side = calls[b].side

C6_Witness ==
  \E p \in Procs :
    /\ pc[p] = "notes"
    /\ loc[p].needsUpdate
    /\ \E k \in 1..Len(calls) : calls[k].field = "completed" /\ calls[k].ok

\* C7: the Notion record matched to a Google task is an open one whenever the
\* Notion snapshot holds an open record with the task's normalized title.
C7_OpenPreference ==
  \A p \in Procs : pc[p] \in {"updateNotion", "updateGoogle", "notes"} =>
    LET g == loc[p].googleTasks[loc[p].i]
        nts == loc[p].notionTasks
    IN  (\E k \in 1..Len(nts) : Matches(nts[k], g) /\ ~nts[k].completed)
          => ~nts[loc[p].m].completed

\* C8: a pass in which a create or update call failed still runs to its
\* end-of-pass statistics update, and the errors counter grows by one for
\* every failed call.
C8_FailureIsolation ==
  \A k \in 1..Len(hist) :
    (hist[k].fetched /\ FailedCalls(hist[k]) > 0)
      => (/\ hist[k].outcome = "done" /\ hist[k].dSyncs = 1
          /\ hist[k].dErrors = FailedCalls(hist[k]))

\* C9: a pass one of whose fetches fails issues no create and no update,
\* processes no record of the snapshot that arrived, adds one to the errors
\* counter and nothing to the other counters, and reports the failure to its
\* caller.
C9_FetchFailureAborts ==
  /\ \A p \in Procs :
       (pc[p] = "catch" /\ ~(loc[p].haveN /\ loc[p].haveG))
         => (/\ calls = <<>> /\ loc[p].i = 1 /\ loc[p].notionOnly = <<>>
             /\ loc[p].created = 0 /\ loc[p].updated = 0)
  /\ \A k \in 1..Len(hist) :
       ~hist[k].fetched
         => (/\ hist[k].outcome = "failed"
             /\ hist[k].creates = 0 /\ hist[k].updates = 0
             /\ hist[k].dErrors = 1 /\ hist[k].dSyncs = 0
             /\ hist[k].dCreated = 0 /\ hist[k].dUpdated = 0)
  /\ (Running = {} /\ hist # <<>> /\ ~hist[Len(hist)].fetched)
       => response = [result |-> "failed", ran |-> TRUE]

C9_Witness ==
  \E p \in Procs :
    /\ pc[p] = "catch"
    /\ loc[p].haveN /\ ~loc[p].haveG
    /\ loc[p].notionTasks # <<>>

\* C10: a pass that reaches its end adds to tasksCreated the number of create
\* calls that succeeded in it and to tasksUpdated the number of update calls
\* that succeeded in it.
C10_CounterAccuracy ==
  \A k \in 1..Len(hist) :
    hist[k].outcome = "done"
      => (/\ hist[k].dCreated = hist[k].okCreates
          /\ hist[k].dUpdated = hist[k].okUpdates)

\* C11: no step of the sync removes a record from either store (every
\* record keeps its place and its id, and the stores never shrink), no call
\* other than a create or an update is issued, and tasksDeleted stays 0.
C11_NoDeletion ==
  /\ [](/\ stats.tasksDeleted = 0
        /\ \A k \in 1..Len(calls) : calls[k].op \in {"create", "update"})
  /\ [][/\ Len(google') >= Len(google) /\ Len(notion') >= Len(notion)
        /\ \A k \in 1..Len(google) : google'[k].id = google[k].id
        /\ \A k \in 1..Len(notion) : notion'[k].id = notion[k].id]_vars

\* a second pass has written to a Google task and both stores still hold
\* every record
C11_Witness ==
  /\ Len(hist) >= 1
  /\ \E k \in 1..Len(calls) :
       calls[k].op = "update" /\ calls[k].side = "google" /\ calls[k].ok
  /\ google # <<>> /\ notion # <<>>

\* a title that is empty or holds whitespace only
Blank(title) == \A k \in 1..Len(title) : title[k] \in {" ", "\t"}

\* C12: a record whose title is empty or whitespace-only is never chosen as
\* a match or as the record being matched, never written to, and never the
\* source of a create on the other side.
C12_EmptyTitleExclusion ==
  \A p \in Procs : pc[p] \notin {"idle", "fetch"} =>
    LET l == loc[p]
    IN  /\ \A k \in 1..Len(calls) :
             /\ calls[k].g # 0 => ~Blank(l.googleTasks[calls[k].g].title)
             /\ calls[k].n # 0 => ~Blank(l.notionTasks[calls[k].n].title)
        /\ pc[p] \in {"updateNotion", "updateGoogle", "googleGet", "googlePut",
                      "notes", "count"}
             => (~Blank(l.googleTasks[l.i].title) /\ ~Blank(l.notionTasks[l.m].title))
        /\ pc[p] = "createNotion" => ~Blank(l.googleTasks[l.i].title)
        /\ \A k \in 1..Len(l.notionOnly) : ~Blank(l.notionOnly[k].title)

\* a pass over a whitespace-titled Google task and an untitled Notion page
\* has reached its end without a call
C12_Witness ==
  \E p \in Procs :
    /\ pc[p] = "stats"
    /\ calls = <<>>
    /\ \E k \in 1..Len(loc[p].googleTasks) :
         Blank(loc[p].googleTasks[k].title) /\ loc[p].googleTasks[k].title # <<>>
    /\ \E k \in 1..Len(loc[p].notionTasks) : Blank(loc[p].notionTasks[k].title)

\* C13: every create a pass issues has a source record that is not
\* completed.
C13_CreateOnlyOpen ==
  \A k \in 1..Len(calls) : calls[k].op = "create" => ~calls[k].done

Fold(ch) == IF ch = "A" THEN "a" ELSE IF ch = "B" THEN "b" ELSE ch

\* the words of a title, in lower case: its maximal runs of characters that
\* are not whitespace (cur is the word being read)
RECURSIVE WordsOf(_, _)
WordsOf(title, cur) ==
  LET done == IF cur = <<>> THEN <<>> ELSE << cur >>
  IN  IF title = <<>> THEN done
      ELSE IF Head(title) \in {" ", "\t"}
           THEN done \o WordsOf(Tail(title), <<>>)
           ELSE WordsOf(Tail(title), Append(cur, Fold(Head(title))))

SameKey(t1, t2) == WordsOf(t1, <<>>) = WordsOf(t2, <<>>)

CreatedFrom(side, field, id) ==
  \E k \in 1..Len(calls) :
    calls[k].op = "create" /\ calls[k].side = side /\ calls[k][field] = id

C15_MissingTimestampOldest ==
  \A p \in Procs :
    (pc[p] \in {"catch", "notes"} /\ loc[p].haveN /\ loc[p].haveG
       /\ loc[p].i <= Len(loc[p].googleTasks)) =>
      LET g == loc[p].googleTasks[loc[p].i]
          m == FindMatch(loc[p].notionTasks, g)
          n == loc[p].notionTasks[m]
          dated == IF g.lastModified = NoTime THEN n.lastModified ELSE g.lastModified
          done == CompletionCalls(g.id, n.id)
      IN  (/\ ~Blank(g.title) /\ m # 0
           /\ (g.lastModified = NoTime) # (n.lastModified = NoTime)
           /\ dated > RECENCY_SKEW_MS /\ dated > SYNC_BUFFER) =>
            /\ pc[p] = "catch" => \E k \in 1..Len(calls) : ~calls[k].ok
            /\ (pc[p] = "notes" /\ g.completed # n.completed) =>
                 /\ Len(done) = 1
                 /\ done[1].side = (IF g.lastModified = NoTime THEN "google" ELSE "notion")
                 /\ done[1].done = (IF g.lastModified = NoTime THEN n.completed
                                    ELSE g.completed)

\* the notes write of a pair has been issued or is being sent
NotesWrite(p) ==
  \/ \E k \in 1..Len(calls) :
       calls[k].field = "notes" /\ calls[k].g = loc[p].googleTasks[loc[p].i].id
  \/ (pc[p] \in {"googleGet", "googlePut"} /\ loc[p].upd.field = "notes")

C17_NotesOnlyWhenNotionNewer ==
  \A p \in Procs :
    (pc[p] \in {"googleGet", "googlePut", "count"} /\ NotesWrite(p)) =>
      LET d == loc[p].notionTasks[loc[p].m].lastModified
               - loc[p].googleTasks[loc[p].i].lastModified
      IN  d > RECENCY_SKEW_MS

\* C18: no counter of stats ever decreases, and a pass that ends after its
\* last record or after a create or update call of it failed has added
\* exactly one to totalSyncs by its end.
C18_StatsLifecycle ==
  /\ [][/\ stats'.totalSyncs >= stats.totalSyncs
        /\ stats'.tasksCreated >= stats.tasksCreated
        /\ stats'.tasksUpdated >= stats.tasksUpdated
        /\ stats'.errors >= stats.errors]_vars
  /\ [][\A p \in Procs :
          (/\ pc[p] # "idle" /\ pc'[p] = "idle"
           /\ (pc[p] = "stats" \/ \E k \in 1..Len(calls) : ~calls[k].ok))
            => stats'.totalSyncs = stats.totalSyncs + 1]_vars

\* the four statistics a failed pass must leave alone
Kept(st) == << st.totalSyncs, st.lastSyncTime, st.tasksCreated, st.tasksUpdated >>

\* the step wrote to a store, and not out of band
Wrote(store) == store' # store /\ externals' = externals

\* the step logged one call, on the given side, that names the one record of
\* the store the step changed or added
LoggedWrite(store, side) ==
  /\ Len(calls') = Len(calls) + 1
  /\ calls'[Len(calls')].side = side
  /\ calls'[Len(calls')].id \in 1..Len(store')
  /\ Len(store') <= Len(store) + 1
  /\ \A k \in 1..Len(store) : k # calls'[Len(calls')].id => store'[k] = store[k]

C20_PartialUpdateFrame ==
  [][\A p \in Procs :
       (pc[p] = "googlePut" /\ pc'[p] # "googlePut" /\ google' # google) =>
         LET id == loc[p].googleTasks[loc[p].i].id
         IN  /\ google'[id].title = google[id].title
             /\ loc[p].upd.field = "completed" => google'[id].notes = google[id].notes
             /\ loc[p].upd.field = "notes" => google'[id].status = google[id].status]_vars

\* the ids a snapshot holds
SnapshotIds(tasks) == {tasks[k].id : k \in 1..Len(tasks)}

\* C21: a snapshot a fetch has delivered holds every record of its store,
\* completed ones included, however many records the store holds
C21_FetchAllComplete ==
  \A p \in Procs :
    /\ loc[p].haveG =>
          \A k \in 1..Len(google) : google[k].id \in SnapshotIds(loc[p].googleTasks)
    /\ loc[p].haveN =>
          \A k \in 1..Len(notion) : notion[k].id \in SnapshotIds(loc[p].notionTasks)
\* what a snapshot says of the records' contents, their timestamps left out
Contents(tasks) ==
  [k \in 1..Len(tasks) |->
     [title |-> tasks[k].title, completed |-> tasks[k].completed, notes |-> tasks[k].notes]]

\* C22: passes do not keep rewriting the same values: a pass that reaches its
\* end with every call answered, no out-of-band edit having happened, and
\* that issued a create or an update, leaves a record of some store with
\* other contents than its snapshots showed (a pass whose writes leave both
\* stores as it found them is repeated unchanged by every later pass)
C22_SelfHealingConvergence ==
  \A p \in Procs :
    (/\ pc[p] = "stats" /\ externals = 0
     /\ calls # <<>> /\ \A k \in 1..Len(calls) : calls[k].ok)
    => \/ Contents(GoogleGetTasks(google)) # Contents(loc[p].googleTasks)
       \/ Contents(NotionGetTasks(notion)) # Contents(loc[p].notionTasks)
\* C23: a call whose text is no longer than maxLength returns the text
\* unchanged
C23_TruncationIdentity ==
  (trunc.returned /\ TextLength(trunc.content) <= trunc.maxLength)
  => trunc.out = trunc.content

C23_Witness ==
  /\ trunc.returned /\ trunc.content # <<>>
  /\ TextLength(trunc.content) = trunc.maxLength
  /\ trunc.out = trunc.content

\* C24: for maxLength >= 101 the text a call returns is at most maxLength
\* characters long, whatever the text
C24_TruncationBound ==
  (trunc.returned /\ trunc.maxLength >= 101)
  => TextLength(trunc.out) <= trunc.maxLength

\* a single oversized line was cut
C24_Witness ==
  /\ trunc.returned /\ trunc.maxLength >= 101
  /\ Len(trunc.content) = 1 /\ TextLength(trunc.content) > trunc.maxLength
  /\ trunc.out # trunc.content

\* the part of a truncated output that precedes "\n\n" and the suffix line
KeptOf(out) == SubSeq(out, 1, Len(out) - 2)

\* text a is the first characters of text b
IsPrefix(a, b) ==
  \/ a = <<>>
  \/ /\ Len(a) <= Len(b)
     /\ \A k \in 1..(Len(a) - 1) : a[k] = b[k]
     /\ a[Len(a)].n <= b[Len(a)].n
     /\ a[Len(a)].n > 0 => a[Len(a)].c = b[Len(a)].c

\* the output of a call that truncated ends with an empty line and a suffix
\* line, what precedes them is the first keptLength characters of the text,
\* the suffix prints originalLength - keptLength, and keptLength plus the
\* length of the suffix ("\n\n" included) is at most maxLength
SuffixAccurate ==
  LET out == trunc.out
      suffix == out[Len(out)]
      keptLength == TextLength(KeptOf(out))
  IN  /\ Len(out) >= 3
      /\ suffix.c = "suffix" /\ out[Len(out) - 1] = BlankLine
      /\ IsPrefix(KeptOf(out), trunc.content)
      /\ suffix.k = TextLength(trunc.content) - keptLength
      /\ keptLength + 2 + suffix.n <= trunc.maxLength

C27_FlagReleased ==
  [][/\ \A p \in Procs : (pc[p] # "idle" /\ pc'[p] = "idle") => ~isRunning'
     /\ (\A p \in Procs : pc'[p] = "idle") => ~isRunning'
     /\ rejected' = rejected + 1 => (isRunning /\ isRunning' /\ pc' = pc)]_vars

\* a pass a failed call aborted has ended and a later invocation was accepted
C27_Witness ==
  /\ hist # <<>> /\ hist[1].outcome = "failed" /\ hist[1].fetched
  /\ passes = 2 /\ isRunning

\* the positions of a pass at which a create or an update is awaited
CallPending == {"updateNotion", "googleGet", "googlePut", "createNotion"}

\* C28: a step adds at most one call to the log, the call of the one pass
\* under way, whose two snapshots have both arrived; a pass awaiting a call
\* has both snapshots and no other pass awaits one
C28_WriteSequencing ==
  [][/\ (calls' # calls /\ calls' # <<>>) =>
          /\ Len(calls') = Len(calls) + 1
          /\ SubSeq(calls', 1, Len(calls)) = calls
          /\ \E p \in Procs : pc[p] # "idle" /\ loc[p].haveN /\ loc[p].haveG
     /\ \A p \in Procs :
          pc'[p] \in CallPending =>
            /\ loc'[p].haveN /\ loc'[p].haveG
            /\ \A q \in Procs \ {p} : pc'[q] = "idle"]_vars

\* a pass issued two calls one after the other
C28_Witness ==
  \E p \in Procs :
    /\ pc[p] = "stats" /\ Len(calls) >= 2
    /\ loc[p].haveN /\ loc[p].haveG

\* C29: in the call log of a pass no notes update of a pair precedes a
\* completion update of that pair, and no create on Google precedes an
\* update or a create on Notion
C29_OperationOrdering ==
  \A a \in 1..Len(calls) : \A b \in (a + 1)..Len(calls) :
    /\ ~(/\ calls[a].op = "update" /\ calls[a].field = "notes"
          /\ calls[b].op = "update" /\ calls[b].field = "completed"
          /\ calls[a].g = calls[b].g /\ calls[a].n = calls[b].n)
    /\ ~(/\ calls[a].op = "create" /\ calls[a].side = "google"
          /\ (calls[b].op = "update" \/ calls[b].side = "notion"))

\* a completion update, then the notes update of the same pair, then a
\* create on Google
C29_Witness ==
  \E a \in 1..Len(calls) : \E b \in (a + 1)..Len(calls) : \E c \in (b + 1)..Len(calls) :
    /\ calls[a].field = "completed" /\ calls[b].field = "notes"
    /\ calls[a].g = calls[b].g /\ calls[a].n = calls[b].n
    /\ calls[c].op = "create" /\ calls[c].side = "google"

\* C30: when a pass goes on to the notes of a pair whose completed values
\* differ and whose timestamps are more than the buffer apart, it has issued
\* one completion update for the pair, to the side with the older timestamp
\* and with the completed value of the newer side
C30_LatestWinsDirection ==
  \A p \in Procs :
    pc[p] = "notes" =>
      LET g == loc[p].googleTasks[loc[p].i]
          n == loc[p].notionTasks[loc[p].m]
          d == g.lastModified - n.lastModified
          sent == CompletionCalls(g.id, n.id)
      IN  (g.completed # n.completed /\ Abs(d) > SYNC_BUFFER) =>
            /\ Len(sent) = 1
            /\ sent[1].op = "update" /\ sent[1].ok
            /\ sent[1].side = (IF d > 0 THEN "notion" ELSE "google")
            /\ sent[1].id = (IF d > 0 THEN n.id ELSE g.id)
            /\ sent[1].done = (IF d > 0 THEN g.completed ELSE n.completed)

\* the Google task was the older side and was set to Notion's value
C30_Witness ==
  \E p \in Procs :
    /\ pc[p] = "notes"
    /\ LET g == loc[p].googleTasks[loc[p].i]
           n == loc[p].notionTasks[loc[p].m]
       IN  /\ g.completed # n.completed
           /\ n.lastModified - g.lastModified > SYNC_BUFFER
           /\ CompletionCalls(g.id, n.id) # <<>>
           /\ (google[g.id].status = "completed") = n.completed
C32_NotesOneWay ==
  [][/\ Len(notion') >= Len(notion)
     /\ \A k \in 1..Len(notion) : notion'[k].blocks = notion[k].blocks
     /\ \A k \in 1..Len(calls') :
          /\ calls'[k].field = "notes" =>
                (calls'[k].op = "update" /\ calls'[k].side = "google")
          /\ (calls'[k].op = "update" /\ calls'[k].side = "notion") =>
                calls'[k].field = "completed"
     /\ Len(notion') > Len(notion) =>
          \E p \in Procs :
            /\ pc[p] = "createNotion"
            /\ notion'[Len(notion')].blocks
                 \in {<<>>, SelectSeq(loc[p].googleTasks[loc[p].i].notes,
                                      LAMBDA ln : ln.c # "ws")}]_vars

\* one pass updated the completion of a Notion page and then the notes of
\* its Google task, which differed from the page's
C32_Witness ==
  \E p \in Procs :
    /\ pc[p] = "stats"
    /\ \E a \in 1..Len(calls) : \E b \in 1..Len(calls) :
         /\ calls[a].op = "update" /\ calls[a].side = "notion" /\ calls[a].ok
         /\ calls[b].field = "notes" /\ calls[b].ok
         /\ calls[a].n = calls[b].n
         /\ notion[calls[a].n].blocks = loc[p].notionTasks[calls[a].n].notes
         /\ loc[p].googleTasks[calls[b].g].notes # loc[p].notionTasks[calls[b].n].notes
\* the text of a page: its blocks that are not whitespace only
ContentOf(page) == SelectSeq(page.blocks, LAMBDA ln : ln.c # "ws")

\* C33: when getTasks has returned, the notes of every record for which
\* fewer than maxRetries block-list requests in a row are rejected hold the
\* page's content
C33_CommentFetchRetried ==
  commentFetch.pcf = "returned" =>
    \A k \in 1..Len(commentFetch.tasks) :
      commentFetch.failing[k] < maxRetries =>
        commentFetch.tasks[k].notes = ContentOf(commentFetch.results[k])

C34_Bounded ==
  LET c == commentFetch
  IN  /\ \A k \in 1..Len(c.requests) : c.requests[k] <= maxRetries
      /\ c.pcf = "threw" => c.queryFailed
      /\ Len(c.tasks) <= Len(c.results)
      /\ \A k \in 1..Len(c.tasks) :
           /\ c.tasks[k].id = c.results[k].id
           /\ c.tasks[k].title = c.results[k].title
           /\ c.lastFailed[k] => c.tasks[k].notes = EmptyText
      /\ c.pcf = "returned" => (Len(c.tasks) = Len(notion) /\ ~c.queryFailed)

\* C34: at most maxRetries block-list requests are sent for a page, a
\* rejected last request gives the record empty notes, getTasks throws only
\* when its query was rejected and otherwise returns one record per page, in
\* order; and the call comes to an end
C34_RetryBoundedNeverBlocks ==
  /\ []C34_Bounded
  /\ <>(commentFetch.pcf \in {"returned", "threw"})

\* the request for the first page was rejected, the second page was read
C34_Witness ==
  /\ commentFetch.pcf = "returned"
  /\ Len(commentFetch.tasks) = 2
  /\ commentFetch.lastFailed[1] /\ ContentOf(commentFetch.results[1]) # <<>>
  /\ commentFetch.tasks[1].notes = EmptyText
  /\ commentFetch.tasks[2].notes # EmptyText
\* the notes calls a pass has issued for a pair
NotesCalls(gid, nid) ==
  SelectSeq(calls, LAMBDA c : c.field = "notes" /\ c.g = gid /\ c.n = nid)

\* C35: updateGoogleNotes sends at most two updates for a pair, the second
\* only after the first failed and with notes of at most 4000 characters;
\* when the second succeeds the pass goes on, when both fail the pass is
\* aborted with the error of the first; no update is sent for empty notes
C35_EmergencyRetry ==
  \A p \in Procs :
    pc[p] \notin {"idle", "fetch"} =>
      LET l == loc[p]
          last == calls[Len(calls)]
          sentLast == NotesCalls(last.g, last.n)
          afterNotes == calls # <<>> /\ last.field = "notes"
      IN  /\ \A gid \in 1..Len(l.googleTasks) : \A nid \in 1..Len(l.notionTasks) :
               LET sent == NotesCalls(gid, nid)
               IN  /\ Len(sent) <= 2
                   /\ Len(sent) = 2 => ~sent[1].ok
                   /\ sent # <<>> =>
                        \E k \in 1..Len(l.notionTasks[nid].notes) :
                          l.notionTasks[nid].notes[k].c # "ws"
          /\ (pc[p] = "count" /\ afterNotes) =>
                /\ last.ok
                /\ (Len(sentLast) = 2 /\ externals = 0) =>
                     TextLength(google[last.g].notes) <= EMERGENCY_LENGTH
          /\ (pc[p] = "catch" /\ afterNotes) =>
                /\ Len(sentLast) = 2 /\ ~sentLast[2].ok
                /\ l.thrown = 1
          /\ (pc[p] \in {"googleGet", "googlePut"} /\ l.upd.field = "notes") =>
                /\ Len(NotesCalls(l.googleTasks[l.i].id, l.notionTasks[l.m].id))
                     = l.upd.attempt - 1
                /\ l.upd.attempt = 2 => TextLength(l.upd.notes) <= EMERGENCY_LENGTH

\* the first update of a long text failed and the second went through
C35_Witness ==
  \E p \in Procs :
    /\ pc[p] = "count" /\ loc[p].upd.field = "notes"
    /\ LET g == loc[p].googleTasks[loc[p].i]
           n == loc[p].notionTasks[loc[p].m]
       IN  /\ Len(NotesCalls(g.id, n.id)) = 2
           /\ NotesCalls(g.id, n.id)[2].ok
           /\ TextLength(n.notes) > MAX_GOOGLE_NOTES_LENGTH
\* the title of the snapshot record a create call was issued for
SourceTitle(p, c) ==
  IF c.side = "notion" THEN loc[p].googleTasks[c.g].title
  ELSE loc[p].notionTasks[c.n].title

\* C36: no two creates of one pass on one side are for records of the same
\* normalized title
C36_NoDuplicateCreates ==
  \A p \in Procs :
    pc[p] \notin {"idle", "fetch"} =>
      \A a \in 1..Len(calls) : \A b \in (a + 1)..Len(calls) :
        (/\ calls[a].op = "create" /\ calls[b].op = "create"
         /\ calls[a].side = calls[b].side)
        => ~SameKey(SourceTitle(p, calls[a]), SourceTitle(p, calls[b]))
\* C37: no record receives two completion updates in one pass
C37_OneCompletionWritePerRecord ==
  \A a \in 1..Len(calls) : \A b \in (a + 1)..Len(calls) :
    ~(/\ calls[a].field = "completed" /\ calls[b].field = "completed"
      /\ calls[a].side = calls[b].side /\ calls[a].id = calls[b].id)

\* C38: a failed create leaves no record: when notionService.createTask
\* throws, the Notion store holds no page that it did not hold before the
\* call.
C38_FailedCreateLeavesNoRecord ==
  [][(/\ Len(calls') = Len(calls) + 1
      /\ calls'[Len(calls')].op = "create"
      /\ calls'[Len(calls')].side = "notion"
      /\ ~calls'[Len(calls')].ok)
        => Len(notion') = Len(notion)]_vars


\* C39: triggers report success only for a pass that ran: a trigger's
\* handler reports a completed sync only when its invocation of
\* performFullSync ran a pass to completion; an invocation that the
\* in-progress flag rejected is not reported as a successful sync.
C39_SuccessOnlyForRanPass ==
  response.result = "success" => response.ran

====
